---- MODULE Spec2Model ----
(***************************************************************************)
(* A model of PDFEditor.py: replace_text_in_pdf (roll number and name in   *)
(* the footer band, the date after "Date:" in the header band) and its     *)
(* helpers text_width and scale_font_to_fit.                               *)
(*                                                                         *)
(* A text is a sequence of one-character strings.  Lengths are integers in *)
(* hundredths of a point (Pt(1) = 100), so that text_width's 0.55 factor   *)
(* is the integer CharWidthPct.  A font size that scale_font_to_fit        *)
(* computes is a fraction <<n, d>> (n/d points).                           *)
(*                                                                         *)
(* A page is its rectangle and its runs of text in content-stream order.   *)
(* A run is one line of text drawn from the origin (x, y) at font size fs; *)
(* a character a redaction removed leaves a gap, written " " (text         *)
(* extraction reads a gap as a space).  The page's own text is set at size *)
(* 10 in the face text_width measures.                                     *)
(***************************************************************************)
EXTENDS Integers, Sequences, FiniteSets, TLC

VARIABLES
    pdf_bytes,              \* the document the current call was given
    old_roll, new_roll,     \* primary literal pair
    replace_name, old_name, new_name,
    replace_date, new_date,
    doc,                    \* the open document, mutated in place
    replacements,           \* the running count
    pno,                    \* index of `page` in `for page in doc`
    pc,                     \* position in replace_text_in_pdf
    hits,                   \* boxes of the for-loop over search_for's result
    inst,                   \* the box redacted and not yet re-inserted
    words, i,               \* the sorted word list and enumerate's index
    did_replace_on_page,
    m,                      \* the regex match of the fallback, or NoMatch
    out,                    \* the serialized output, or NoDoc
    calls,                  \* log of the library calls made on the pages
    first,                  \* result of the previous call when its output is fed back
    fit_args, fit_ret       \* an isolated call of scale_font_to_fit

vars == <<pdf_bytes, old_roll, new_roll, replace_name, old_name, new_name,
          replace_date, new_date, doc, replacements, pno, pc, hits, inst,
          words, i, did_replace_on_page, m, out, calls, first, fit_args, fit_ret>>

----------------------------------------------------------------------------
(* Units, characters, str methods *)

Pt(n) == n * 100

CharWidthPct == 55

BaseFontSize == 10

BaselineOffset == 2

DefaultMinFs == 8

DefaultMaxFs == 14

Max(a, b) == IF a >= b THEN a ELSE b

IsSpace(c) == c \in {" ", "\n"}

IsDigit(c) == c \in {"0", "1", "2", "3", "4", "5", "6", "7", "8", "9"}

UpperToLower == [A |-> "a", B |-> "b", D |-> "d", E |-> "e", T |-> "t"]

\* str.lower() on one character
LowerChar(c) == IF c \in DOMAIN UpperToLower THEN UpperToLower[c] ELSE c

Lower(s) == [k \in DOMAIN s |-> LowerChar(s[k])]

RECURSIVE LStrip(_)
LStrip(s) == IF s # <<>> /\ IsSpace(Head(s)) THEN LStrip(Tail(s)) ELSE s

RECURSIVE RStrip(_)
RStrip(s) ==
    IF s # <<>> /\ IsSpace(s[Len(s)]) THEN RStrip(SubSeq(s, 1, Len(s) - 1)) ELSE s

\* str.strip(); a string is truthy when it is not <<>>
Strip(s) == RStrip(LStrip(s))

----------------------------------------------------------------------------
(* helpers of PDFEditor.py *)

\* text_width's fallback formula, fontsize * 0.55 * len(text), in hundredths of a point
text_width(text, fontsize) == fontsize * CharWidthPct * Len(text)

\* fractions n/d with d > 0
RatLe(a, b) == a[1] * b[2] <= b[1] * a[2]

RatEq(a, b) == a[1] * b[2] = b[1] * a[2]

RatMin(a, b) == IF RatLe(a, b) THEN a ELSE b

RatMax(a, b) == IF RatLe(b, a) THEN a ELSE b

\* faulty variant: the scaled size is returned without the clamp
scale_font_unclamped(target_width, text, base_fontsize, min_fs, max_fs) ==
    LET w == text_width(text, base_fontsize)
    IN  IF w <= 0 THEN <<base_fontsize, 1>> ELSE <<base_fontsize * target_width, w>>

\* faulty variant: the ratio of the widths is taken for the size, base_fontsize forgotten
scale_font_ratio_only(target_width, text, base_fontsize, min_fs, max_fs) ==
    LET w == text_width(text, base_fontsize)
    IN  IF w <= 0
        THEN <<base_fontsize, 1>>
        ELSE RatMax(<<min_fs, 1>>, RatMin(<<max_fs, 1>>, <<target_width, w>>))

scale_font_to_fit(target_width, text, base_fontsize, min_fs, max_fs) ==
    LET w == text_width(text, base_fontsize)
    IN  IF w <= 0
        THEN <<base_fontsize, 1>>
        ELSE LET fs == <<base_fontsize * target_width, w>>
             IN  RatMax(<<min_fs, 1>>, RatMin(<<max_fs, 1>>, fs))

----------------------------------------------------------------------------
(* The page content and the library calls made on it *)

Run(x, y, s, fs) == [x |-> x, y |-> y, s |-> s, fs |-> fs]

\* horizontal offset of the end of the k-th character of run r
GlyphOff(r, k) == (k * CharWidthPct * r.fs[1]) \div r.fs[2]

Rect(x0, y0, x1, y1) == [x0 |-> x0, y0 |-> y0, x1 |-> x1, y1 |-> y1]

NoBox == Rect(0, 0, 0, 0)

\* fitz.Rect.width
Width(box) == Max(0, box.x1 - box.x0)

\* the box of characters a..b of run r
RunBox(r, a, b) ==
    Rect(r.x + GlyphOff(r, a - 1), r.y - (Pt(r.fs[1]) \div r.fs[2]),
         r.x + GlyphOff(r, b), r.y + Pt(BaselineOffset))

\* the run has characters inside the clip rectangle
InClip(r, clip) ==
    LET b == RunBox(r, 1, Len(r.s))
    IN  b.x0 < clip.x1 /\ b.x1 > clip.x0 /\ b.y0 < clip.y1 /\ b.y1 > clip.y0

\* the search compares case-folded characters, every white space as a space
Canon(c) == IF IsSpace(c) THEN " " ELSE LowerChar(c)

MatchAt(s, k, needle) ==
    /\ k + Len(needle) - 1 <= Len(s)
    /\ \A j \in 1..Len(needle) : Canon(s[k + j - 1]) = Canon(needle[j])

\* start positions of the matches of needle in s at or after k, left to right,
\* the scan resuming after each match
RECURSIVE FindFrom(_, _, _)
FindFrom(s, k, needle) ==
    IF needle = <<>> \/ k + Len(needle) - 1 > Len(s) THEN <<>>
    ELSE IF MatchAt(s, k, needle)
         THEN <<k>> \o FindFrom(s, k + Len(needle), needle)
         ELSE FindFrom(s, k + 1, needle)

Occurs(s, needle) == FindFrom(s, 1, needle) # <<>>

RunHits(r, needle) ==
    LET at == FindFrom(r.s, 1, needle)
    IN  [k \in 1..Len(at) |-> RunBox(r, at[k], at[k] + Len(needle) - 1)]

RECURSIVE SearchRuns(_, _, _)
SearchRuns(runs, needle, clip) ==
    IF runs = <<>> THEN <<>>
    ELSE (IF InClip(Head(runs), clip) THEN RunHits(Head(runs), needle) ELSE <<>>)
         \o SearchRuns(Tail(runs), needle, clip)

\* page.search_for(needle, clip=clip): the boxes of every occurrence inside clip
search_for(page, needle, clip) == SearchRuns(page.runs, needle, clip)

\* character k of run r lies (partly) inside the box
InBox(r, k, box) ==
    /\ r.x * r.fs[2] + (k - 1) * CharWidthPct * r.fs[1] < box.x1 * r.fs[2]
    /\ r.x * r.fs[2] + k * CharWidthPct * r.fs[1] > box.x0 * r.fs[2]
    /\ r.y * r.fs[2] - Pt(r.fs[1]) < box.y1 * r.fs[2]
    /\ r.y + Pt(BaselineOffset) > box.y0

Erase(r, box) ==
    [r EXCEPT !.s = [k \in 1..Len(r.s) |-> IF InBox(r, k, box) THEN " " ELSE r.s[k]]]

\* faulty variant: the redaction annotation is added and never applied
redact_not_applied(page, box) == page

\* page.add_redact_annot(box); page.apply_redactions(): every character touching
\* the box is removed from the page
redact(page, box) ==
    [page EXCEPT !.runs = [k \in 1..Len(page.runs) |-> Erase(page.runs[k], box)]]

\* page.insert_text((x, y), text, fontsize=fs): a new run at the end of the content
insert_text(page, x, y, text, fs) ==
    [page EXCEPT !.runs = Append(page.runs, Run(x, y, text, fs))]

\* the maximal stretch of non-space characters of s that starts at k ends at WordEnd
WordEnd(s, k) ==
    CHOOSE j \in k..Len(s) :
        /\ \A q \in k..j : ~IsSpace(s[q])
        /\ j = Len(s) \/ IsSpace(s[j + 1])

RECURSIVE WordSpans(_, _)
WordSpans(s, k) ==
    IF k > Len(s) THEN <<>>
    ELSE IF IsSpace(s[k]) THEN WordSpans(s, k + 1)
         ELSE <<<<k, WordEnd(s, k)>>>> \o WordSpans(s, WordEnd(s, k) + 1)

\* the word tuples (x0, y0, x1, y1, text, block_no, line_no, word_no) of one run
RunWords(r, block) ==
    LET sp == WordSpans(r.s, 1)
    IN  [k \in 1..Len(sp) |->
            [box |-> RunBox(r, sp[k][1], sp[k][2]),
             text |-> SubSeq(r.s, sp[k][1], sp[k][2]),
             block |-> block, line |-> 0, word_no |-> k - 1]]

RECURSIVE WordsFrom(_, _, _)
WordsFrom(runs, block, clip) ==
    IF runs = <<>> THEN <<>>
    ELSE (IF InClip(Head(runs), clip) THEN RunWords(Head(runs), block) ELSE <<>>)
         \o WordsFrom(Tail(runs), block + 1, clip)

\* page.get_text("words", clip=clip)
get_words(page, clip) == WordsFrom(page.runs, 0, clip)

KeyLe(a, b) ==
    \/ a.block < b.block
    \/ a.block = b.block /\ a.line < b.line
    \/ a.block = b.block /\ a.line = b.line /\ a.word_no <= b.word_no

RECURSIVE InsertByKey(_, _)
InsertByKey(sorted, w) ==
    IF sorted = <<>> THEN <<w>>
    ELSE IF KeyLe(Head(sorted), w) THEN <<Head(sorted)>> \o InsertByKey(Tail(sorted), w)
         ELSE <<w>> \o sorted

\* words.sort(key=lambda w: (w[5], w[6], w[7])), a stable sort
RECURSIVE sort_words(_)
sort_words(ws) ==
    IF ws = <<>> THEN <<>>
    ELSE InsertByKey(sort_words(SubSeq(ws, 1, Len(ws) - 1)), ws[Len(ws)])

RECURSIVE TextFrom(_, _)
TextFrom(runs, clip) ==
    IF runs = <<>> THEN <<>>
    ELSE (IF InClip(Head(runs), clip) THEN Head(runs).s \o <<"\n">> ELSE <<>>)
         \o TextFrom(Tail(runs), clip)

\* page.get_text("text", clip=clip): the lines, each ended by a newline
get_text(page, clip) == TextFrom(page.runs, clip)

----------------------------------------------------------------------------
(* The two regular expressions *)

\* \d{2}[-/]\d{2}[-/]\d{4} matches t at position k
DateAt(t, k) ==
    /\ k + 9 <= Len(t)
    /\ \A q \in {0, 1, 3, 4, 6, 7, 8, 9} : IsDigit(t[k + q])
    /\ \A q \in {2, 5} : t[k + q] \in {"-", "/"}

\* re.fullmatch(r"\d{2}[-/]\d{2}[-/]\d{4}", s)
date_fullmatch(s) == Len(s) = 10 /\ DateAt(s, 1)

DateLabel == <<"d", "a", "t", "e", ":">>

LabelAt(t, k) == k + 4 <= Len(t) /\ Lower(SubSeq(t, k, k + 4)) = DateLabel

\* \s* from position k: the first position at or after k that holds no white space
RECURSIVE SkipSpace(_, _)
SkipSpace(t, k) == IF k <= Len(t) /\ IsSpace(t[k]) THEN SkipSpace(t, k + 1) ELSE k

ReMatchAt(t, k) == LabelAt(t, k) /\ DateAt(t, SkipSpace(t, k + 5))

NoMatch == [found |-> FALSE, group0 |-> <<>>, group1 |-> <<>>]

\* re.search(r"(Date:\s*)(\d{2}[-/]\d{2}[-/]\d{4})", t, flags=re.IGNORECASE):
\* the leftmost match, with m.group(0) and m.group(1)
re_search(t) ==
    IF \E k \in 1..Len(t) : ReMatchAt(t, k)
    THEN LET k == CHOOSE a \in 1..Len(t) :
                      ReMatchAt(t, a) /\ \A b \in 1..(a - 1) : ~ReMatchAt(t, b)
             d == SkipSpace(t, k + 5)
         IN  [found |-> TRUE, group0 |-> SubSeq(t, k, d + 9), group1 |-> SubSeq(t, k, d - 1)]
    ELSE NoMatch

----------------------------------------------------------------------------
(* Documents and arguments the model is run on *)

MaxPages == 2

MaxPagesRoll == 5

MaxFitLen == 3

A4 == Rect(0, 0, Pt(595), Pt(842))

PageOf(runs) == [rect |-> A4, runs |-> runs]

Size10 == <<BaseFontSize, 1>>

HeaderLine(s) == Run(Pt(72), Pt(40), s, Size10)

BodyLine(s) == Run(Pt(72), Pt(400), s, Size10)

FooterLine(s) == Run(Pt(72), Pt(800), s, Size10)

Roll12 == <<"1", "2">>

Roll34 == <<"3", "4">>

Roll345 == <<"3", "4", "5">>

Roll123 == <<"1", "2", "3">>

NameBo == <<"b", "o">>

NameAl == <<"a", "l">>

Blank == <<" ">>

Date1 == <<"1", "3", "-", "0", "8", "-", "2", "0", "2", "5">>

Date2 == <<"1", "4", "/", "0", "8", "/", "2", "0", "2", "5">>

IsoDate == <<"2", "0", "2", "5", "-", "0", "8", "-", "1", "3">>

NewDate == <<"0", "1", "-", "0", "1", "-", "2", "0", "2", "6">>

ShortDate == <<"1", "-", "1", "-", "2", "6">>

LabelText == <<"D", "a", "t", "e", ":">>

UpperLabel == <<"D", "A", "T", "E", ":">>

RefText == <<"R", "e", "f">>

TwoRolls == Roll12 \o Blank \o Roll12

AdjacentRolls == Roll12 \o Roll12

NameAndRoll == NameBo \o Blank \o Roll12

\* the pages of the documents replace_text_in_pdf is run on
PageKinds ==
    { \* "Date:" and the date on two lines
      PageOf(<<HeaderLine(LabelText), Run(Pt(120), Pt(40), Date1, Size10),
               FooterLine(TwoRolls)>>),
      \* two labels, each with a date
      PageOf(<<HeaderLine(LabelText \o Blank \o Date1 \o Blank \o LabelText \o Blank \o Date2),
               BodyLine(Roll12), FooterLine(NameBo)>>),
      \* a malformed date, roll number and name outside the footer
      PageOf(<<HeaderLine(LabelText \o Blank \o IsoDate), BodyLine(NameAndRoll)>>),
      \* the label is the last word
      PageOf(<<HeaderLine(RefText \o Blank \o LabelText), FooterLine(AdjacentRolls)>>),
      \* a comma after the date
      PageOf(<<HeaderLine(UpperLabel \o Blank \o Date1 \o <<",">>), FooterLine(NameAndRoll)>>),
      \* label and date fused into one word, twice
      PageOf(<<HeaderLine(LabelText \o Date1 \o Blank \o DateLabel \o Date1),
               FooterLine(NameBo \o Blank \o NameBo)>>),
      \* no label
      PageOf(<<HeaderLine(RefText), FooterLine(TwoRolls)>>) }

\* the footers of the documents the primary replacement alone is run on
RollPageKinds ==
    { PageOf(<<HeaderLine(RefText), FooterLine(TwoRolls)>>),
      PageOf(<<BodyLine(TwoRolls), FooterLine(NameBo)>>),
      PageOf(<<FooterLine(AdjacentRolls)>>) }

SeqsUpTo(S, n) == UNION {[1..k -> S] : k \in 1..n}

RollArgs == {<<Roll12, Roll345>>}

RollOnlyArgs == {Roll12, Blank} \X {Roll34, Roll345, Roll12, Roll123}

NameArgs ==
    { <<FALSE, <<>>, <<>>>>, <<TRUE, NameBo, NameAl>>, <<TRUE, Blank, NameAl>>,
      <<TRUE, NameBo, <<>>>> }

DateArgs ==
    { <<FALSE, <<>>>>, <<TRUE, NewDate>>, <<TRUE, Blank>>, <<TRUE, <<>>>>,
      <<TRUE, ShortDate>> }

NoDoc == <<>>

NoFirst == [set |-> FALSE, out |-> NoDoc, count |-> 0]

NoFit == <<0, 1>>

NoFitArgs == [target_width |-> 0, text |-> <<>>, base_fontsize |-> 0, min_fs |-> 0, max_fs |-> 0]

\* the state at the head of `for page in doc`, lines 34-37
Opened(d) ==
    /\ pdf_bytes = d
    /\ doc = d
    /\ replacements = 0
    /\ pno = 1
    /\ pc = "roll"
    /\ hits = <<>>
    /\ inst = NoBox
    /\ words = <<>>
    /\ i = 1
    /\ did_replace_on_page = FALSE
    /\ m = NoMatch
    /\ out = NoDoc
    /\ calls = <<>>
    /\ first = NoFirst

Init ==
    /\ \E d \in SeqsUpTo(PageKinds, MaxPages) : Opened(d)
    /\ \E r \in RollArgs : old_roll = r[1] /\ new_roll = r[2]
    /\ \E n \in NameArgs : replace_name = n[1] /\ old_name = n[2] /\ new_name = n[3]
    /\ \E d \in DateArgs : replace_date = d[1] /\ new_date = d[2]
    /\ fit_args = NoFitArgs
    /\ fit_ret = NoFit

----------------------------------------------------------------------------
(* replace_text_in_pdf *)

FooterMargin == 120

HeaderMargin == 120

page == doc[pno]

\* line 39
FooterArea(pg) ==
    Rect(pg.rect.x0, pg.rect.y1 - Pt(FooterMargin), pg.rect.x1, pg.rect.y1)

\* line 40
HeaderArea(pg) ==
    Rect(pg.rect.x0, pg.rect.y0, pg.rect.x1, pg.rect.y0 + Pt(HeaderMargin))

footer_area == FooterArea(page)

header_area == HeaderArea(page)

Point(x, y) == [x |-> x, y |-> y]

Call(op, field, box, pt, text, fs) ==
    [op |-> op, field |-> field, page |-> pno, box |-> box, pt |-> pt,
     text |-> text, fs |-> fs]

Redacted(field, box) ==
    Append(calls, Call("redact", field, box, Point(0, 0), <<>>, Size10))

Inserted(field, pt, text, fs) ==
    Append(calls, Call("insert", field, NoBox, pt, text, fs))

Extracted(field) ==
    Append(calls, Call("get_text", field, NoBox, Point(0, 0), <<>>, Size10))

params == <<pdf_bytes, old_roll, new_roll, replace_name, old_name, new_name,
            replace_date, new_date, first, fit_args, fit_ret>>

\* faulty variant: the search is not clipped to the footer
RollSearchWholePage ==
    /\ pc = "roll"
    /\ hits' = IF Strip(old_roll) # <<>>
               THEN search_for(page, old_roll, page.rect)
               ELSE <<>>
    /\ pc' = IF hits' = <<>> THEN "name" ELSE "roll_redact"
    /\ UNCHANGED <<params, doc, replacements, pno, inst, words, i,
                   did_replace_on_page, m, out, calls>>

\* lines 43-44: the guard and the search the loop iterates over
RollSearch ==
    /\ pc = "roll"
    /\ hits' = IF Strip(old_roll) # <<>>
               THEN search_for(page, old_roll, footer_area)
               ELSE <<>>
    /\ pc' = IF hits' = <<>> THEN "name" ELSE "roll_redact"
    /\ UNCHANGED <<params, doc, replacements, pno, inst, words, i,
                   did_replace_on_page, m, out, calls>>

\* faulty variant: the count is not raised
RollRedactUncounted ==
    /\ pc = "roll_redact"
    /\ inst' = Head(hits)
    /\ doc' = [doc EXCEPT ![pno] = redact(@, inst')]
    /\ calls' = Redacted("roll", inst')
    /\ pc' = "roll_insert"
    /\ UNCHANGED <<params, replacements, pno, hits, words, i, did_replace_on_page, m, out>>

\* lines 45-47
RollRedact ==
    /\ pc = "roll_redact"
    /\ inst' = Head(hits)
    /\ replacements' = replacements + 1
    /\ doc' = [doc EXCEPT ![pno] = redact(@, inst')]
    /\ calls' = Redacted("roll", inst')
    /\ pc' = "roll_insert"
    /\ UNCHANGED <<params, pno, hits, words, i, did_replace_on_page, m, out>>

\* faulty variant: the baseline is put on the bottom edge of the box
AnchorOnBottomEdge(box) == Point(box.x0, box.y1)

\* the point the replacement is drawn at, lines 48, 58
Anchor(box) == Point(box.x0, box.y1 - Pt(BaselineOffset))

\* lines 48-50
RollInsert ==
    /\ pc = "roll_insert"
    /\ doc' = [doc EXCEPT ![pno] =
                  insert_text(@, Anchor(inst).x, Anchor(inst).y, new_roll, Size10)]
    /\ calls' = Inserted("roll", Anchor(inst), new_roll, Size10)
    /\ hits' = Tail(hits)
    /\ inst' = NoBox
    /\ pc' = IF hits' = <<>> THEN "name" ELSE "roll_redact"
    /\ UNCHANGED <<params, replacements, pno, words, i, did_replace_on_page, m, out>>

\* faulty variant: the names are tested without strip()
NameSearchUnstripped ==
    /\ pc = "name"
    /\ hits' = IF replace_name /\ old_name # <<>> /\ new_name # <<>>
               THEN search_for(page, old_name, footer_area)
               ELSE <<>>
    /\ pc' = IF hits' = <<>> THEN "date" ELSE "name_redact"
    /\ UNCHANGED <<params, doc, replacements, pno, inst, words, i,
                   did_replace_on_page, m, out, calls>>

\* faulty variant: the search is not clipped to the footer
NameSearchWholePage ==
    /\ pc = "name"
    /\ hits' = IF replace_name /\ Strip(old_name) # <<>> /\ Strip(new_name) # <<>>
               THEN search_for(page, old_name, page.rect)
               ELSE <<>>
    /\ pc' = IF hits' = <<>> THEN "date" ELSE "name_redact"
    /\ UNCHANGED <<params, doc, replacements, pno, inst, words, i,
                   did_replace_on_page, m, out, calls>>

\* lines 53-54
NameSearch ==
    /\ pc = "name"
    /\ hits' = IF replace_name /\ Strip(old_name) # <<>> /\ Strip(new_name) # <<>>
               THEN search_for(page, old_name, footer_area)
               ELSE <<>>
    /\ pc' = IF hits' = <<>> THEN "date" ELSE "name_redact"
    /\ UNCHANGED <<params, doc, replacements, pno, inst, words, i,
                   did_replace_on_page, m, out, calls>>

\* lines 55-57
NameRedact ==
    /\ pc = "name_redact"
    /\ inst' = Head(hits)
    /\ replacements' = replacements + 1
    /\ doc' = [doc EXCEPT ![pno] = redact(@, inst')]
    /\ calls' = Redacted("name", inst')
    /\ pc' = "name_insert"
    /\ UNCHANGED <<params, pno, hits, words, i, did_replace_on_page, m, out>>

\* lines 58-60
NameInsert ==
    /\ pc = "name_insert"
    /\ doc' = [doc EXCEPT ![pno] =
                  insert_text(@, Anchor(inst).x, Anchor(inst).y, new_name, Size10)]
    /\ calls' = Inserted("name", Anchor(inst), new_name, Size10)
    /\ hits' = Tail(hits)
    /\ inst' = NoBox
    /\ pc' = IF hits' = <<>> THEN "date" ELSE "name_redact"
    /\ UNCHANGED <<params, replacements, pno, words, i, did_replace_on_page, m, out>>

\* lines 63-69
DateStart ==
    /\ pc = "date"
    /\ IF replace_date /\ Strip(new_date) # <<>>
       THEN /\ words' = sort_words(get_words(page, header_area))
            /\ i' = 1
            /\ did_replace_on_page' = FALSE
            /\ pc' = "tierA"
       ELSE /\ pc' = "next"
            /\ UNCHANGED <<words, i, did_replace_on_page>>
    /\ UNCHANGED <<params, doc, replacements, pno, hits, inst, m, out, calls>>

\* lines 70-77: words[i] is the label and words[i + 1] looks like a date
LabelledDate(ws, k) ==
    /\ Lower(Strip(ws[k].text)) = DateLabel
    /\ k + 1 <= Len(ws)
    /\ date_fullmatch(Strip(ws[k + 1].text))

\* lines 70-82: one iteration of the loop over the words, up to the redaction
TierAScan ==
    /\ pc = "tierA"
    /\ i <= Len(words)
    /\ IF LabelledDate(words, i)
       THEN /\ inst' = words[i + 1].box
            /\ doc' = [doc EXCEPT ![pno] = redact(@, inst')]
            /\ calls' = Redacted("tierA", inst')
            /\ pc' = "tierA_insert"
            /\ i' = i
       ELSE /\ i' = i + 1
            /\ UNCHANGED <<inst, doc, calls, pc>>
    /\ UNCHANGED <<params, replacements, pno, hits, words, did_replace_on_page, m, out>>

\* lines 85-89
TierAInsert ==
    /\ pc = "tierA_insert"
    /\ LET target_w == Width(inst)
           fs == scale_font_to_fit(target_w, new_date, BaseFontSize,
                                   DefaultMinFs, DefaultMaxFs)
       IN  /\ doc' = [doc EXCEPT ![pno] =
                         insert_text(@, Anchor(inst).x, Anchor(inst).y, new_date, fs)]
           /\ calls' = Inserted("tierA", Anchor(inst), new_date, fs)
    /\ replacements' = replacements + 1
    /\ did_replace_on_page' = TRUE
    /\ inst' = NoBox
    /\ i' = i + 1
    /\ pc' = "tierA"
    /\ UNCHANGED <<params, pno, hits, words, m, out>>

\* faulty variant: the fallback runs whatever the token tier did
TierAEndAlwaysFallback ==
    /\ pc = "tierA"
    /\ i > Len(words)
    /\ pc' = "tierB"
    /\ UNCHANGED <<params, doc, replacements, pno, hits, inst, words, i,
                   did_replace_on_page, m, out, calls>>

\* the loop over the words is exhausted; line 92
TierAEnd ==
    /\ pc = "tierA"
    /\ i > Len(words)
    /\ pc' = IF did_replace_on_page THEN "next" ELSE "tierB"
    /\ UNCHANGED <<params, doc, replacements, pno, hits, inst, words, i,
                   did_replace_on_page, m, out, calls>>

\* lines 93-99
TierBSearch ==
    /\ pc = "tierB"
    /\ m' = re_search(get_text(page, header_area))
    /\ hits' = IF m'.found THEN search_for(page, m'.group0, header_area) ELSE <<>>
    /\ calls' = Extracted("tierB")
    /\ pc' = IF hits' = <<>> THEN "next" ELSE "tierB_redact"
    /\ UNCHANGED <<params, doc, replacements, pno, inst, words, i,
                   did_replace_on_page, out>>

\* lines 101-107
TierBRedact ==
    /\ pc = "tierB_redact"
    /\ LET box == Head(hits)
           prefix_w == text_width(m.group1, BaseFontSize)
           date_x0 == box.x0 + prefix_w
       IN  inst' = Rect(date_x0, box.y0, box.x1, box.y1)
    /\ doc' = [doc EXCEPT ![pno] = redact(@, inst')]
    /\ calls' = Redacted("tierB", inst')
    /\ pc' = "tierB_insert"
    /\ UNCHANGED <<params, replacements, pno, hits, words, i, did_replace_on_page, m, out>>

\* lines 109-111
TierBInsert ==
    /\ pc = "tierB_insert"
    /\ LET fs == scale_font_to_fit(Width(inst), new_date, BaseFontSize,
                                   DefaultMinFs, DefaultMaxFs)
       IN  /\ doc' = [doc EXCEPT ![pno] =
                         insert_text(@, Anchor(inst).x, Anchor(inst).y, new_date, fs)]
           /\ calls' = Inserted("tierB", Anchor(inst), new_date, fs)
    /\ replacements' = replacements + 1
    /\ hits' = Tail(hits)
    /\ inst' = NoBox
    /\ pc' = IF hits' = <<>> THEN "next" ELSE "tierB_redact"
    /\ UNCHANGED <<params, pno, words, i, did_replace_on_page, m, out>>

\* line 37: the next page, or the end of the loop
NextPage ==
    /\ pc = "next"
    /\ IF pno < Len(doc)
       THEN pno' = pno + 1 /\ pc' = "roll"
       ELSE pno' = pno /\ pc' = "save"
    /\ UNCHANGED <<params, doc, replacements, hits, inst, words, i,
                   did_replace_on_page, m, out, calls>>

\* lines 113-117
Save ==
    /\ pc = "save"
    /\ out' = doc
    /\ pc' = "done"
    /\ UNCHANGED <<params, doc, replacements, pno, hits, inst, words, i,
                   did_replace_on_page, m, calls>>

\* the returned bytes are given to replace_text_in_pdf again, with the same arguments
Reapply ==
    /\ pc = "done"
    /\ ~first.set
    /\ first' = [set |-> TRUE, out |-> out, count |-> replacements]
    /\ pdf_bytes' = out
    /\ doc' = out
    /\ replacements' = 0
    /\ pno' = 1
    /\ pc' = "roll"
    /\ calls' = <<>>
    /\ out' = NoDoc
    /\ UNCHANGED <<old_roll, new_roll, replace_name, old_name, new_name,
                   replace_date, new_date, hits, inst, words, i,
                   did_replace_on_page, m, fit_args, fit_ret>>

Next ==
    \/ RollSearch \/ RollRedact \/ RollInsert
    \/ NameSearch \/ NameRedact \/ NameInsert
    \/ DateStart \/ TierAScan \/ TierAInsert \/ TierAEnd
    \/ TierBSearch \/ TierBRedact \/ TierBInsert
    \/ NextPage \/ Save

Spec == Init /\ [][Next]_vars

----------------------------------------------------------------------------
(* The primary replacement alone, applied once and then again to its output *)

InitRoll ==
    /\ \E d \in SeqsUpTo(RollPageKinds, MaxPagesRoll) : Opened(d)
    /\ \E r \in RollOnlyArgs : old_roll = r[1] /\ new_roll = r[2]
    /\ replace_name = FALSE /\ old_name = <<>> /\ new_name = <<>>
    /\ replace_date = FALSE /\ new_date = <<>>
    /\ fit_args = NoFitArgs
    /\ fit_ret = NoFit

NextRoll ==
    \/ RollSearch \/ RollRedact \/ RollInsert
    \/ NameSearch \/ DateStart \/ NextPage \/ Save \/ Reapply

SpecRoll == InitRoll /\ [][NextRoll]_vars

----------------------------------------------------------------------------
(* scale_font_to_fit on its own *)

FitSizes == {1, 8, 10, 14, 20, 100}

TextOfLen(n) == [k \in 1..n |-> "x"]

FitArgs ==
    { [target_width |-> text_width(TextOfLen(tl), ts), text |-> TextOfLen(n),
       base_fontsize |-> b, min_fs |-> lo, max_fs |-> hi] :
        tl \in 0..MaxFitLen, ts \in FitSizes, n \in 0..MaxFitLen,
        b \in {8, 10, 20}, lo \in {8, 10}, hi \in {8, 14} }

InitFit ==
    /\ Opened(NoDoc)
    /\ old_roll = <<>> /\ new_roll = <<>>
    /\ replace_name = FALSE /\ old_name = <<>> /\ new_name = <<>>
    /\ replace_date = FALSE /\ new_date = <<>>
    /\ fit_args \in FitArgs
    /\ fit_ret = NoFit

FitCall ==
    /\ pc = "roll"
    /\ fit_ret' = scale_font_to_fit(fit_args.target_width, fit_args.text,
                                    fit_args.base_fontsize, fit_args.min_fs,
                                    fit_args.max_fs)
    /\ pc' = "returned"
    /\ UNCHANGED <<pdf_bytes, old_roll, new_roll, replace_name, old_name, new_name,
                   replace_date, new_date, doc, replacements, pno, hits, inst,
                   words, i, did_replace_on_page, m, out, calls, first, fit_args>>

SpecFit == InitFit /\ [][FitCall]_vars

----------------------------------------------------------------------------
(* Properties *)

Done == pc = "done"

Pages == 1..Len(pdf_bytes)

CallsOn(p, ops, fields) ==
    {k \in 1..Len(calls) :
        calls[k].page = p /\ calls[k].op \in ops /\ calls[k].field \in fields}

AllFields == {"roll", "name", "tierA", "tierB"}

NumCalls(ops, fields) == Cardinality(UNION {CallsOn(p, ops, fields) : p \in Pages})

\* the replacements the log accounts for: the count is raised with the redaction of a
\* footer box and with the insertion of a date
Counted ==
    NumCalls({"redact"}, {"roll", "name"}) + NumCalls({"insert"}, {"tierA", "tierB"})

FooterHits(pg, literal) == search_for(pg, literal, FooterArea(pg))

RECURSIVE FooterOccurrences(_, _)
FooterOccurrences(d, literal) ==
    IF d = <<>> THEN 0
    ELSE Len(FooterHits(Head(d), literal)) + FooterOccurrences(Tail(d), literal)

RunsIn(pg, clip) == LET In(r) == InClip(r, clip) IN SelectSeq(pg.runs, In)

\* C1 as stated: for every non-empty primary literal the returned count is the number
\* of its occurrences inside the footer regions of the document
C1_CountForNonEmpty ==
    Done /\ old_roll # <<>> => replacements = FooterOccurrences(pdf_bytes, old_roll)

\* C1, amended: for every primary literal that is non-empty after stripping white
\* space, the returned count is the number of occurrences the search finds inside the
\* footer regions of the document
C1_CountEqualsFooterOccurrences ==
    Done /\ Strip(old_roll) # <<>> =>
        replacements = FooterOccurrences(pdf_bytes, old_roll)

TwiceOnThreeOfFive ==
    /\ Len(pdf_bytes) = 5
    /\ Cardinality({p \in Pages : Len(FooterHits(pdf_bytes[p], old_roll)) = 2}) = 3
    /\ Cardinality({p \in Pages : Len(FooterHits(pdf_bytes[p], old_roll)) = 0}) = 2

C1_Witness ==
    Done /\ ~first.set /\ Strip(old_roll) # <<>> /\ TwiceOnThreeOfFive /\ replacements = 6

\* the box had the text drawn at its anchor (x0, y1 - 2) at size 10, and of that text
\* exactly the characters reaching into one of the boxes redacted later are gone
DrawnAt(pg, box, text, later) ==
    \E k \in 1..Len(pg.runs) :
        LET r == pg.runs[k]
        IN  /\ r.x = box.x0 /\ r.y = box.y1 - Pt(2) /\ r.fs = Size10
            /\ Len(r.s) = Len(text)
            /\ \A q \in 1..Len(text) :
                   r.s[q] = IF \E b \in 1..Len(later) : InBox(r, q, later[b])
                            THEN " " ELSE text[q]

ReplacedAtEveryBox(before, after, text, exact) ==
    LET hs == FooterHits(before, old_roll)
    IN  \A h \in 1..Len(hs) :
            DrawnAt(after, hs[h], text, IF exact THEN <<>> ELSE SubSeq(hs, h + 1, Len(hs)))

DateEnabled == replace_date /\ Strip(new_date) # <<>>

\* the page's date step is over
DateStepOver(p) == p < pno \/ (p = pno /\ pc \in {"next", "save", "done"})

\* C3: on every page the token tier makes at most one replacement, that of the first
\* "Date:" label followed by a date, however many such labels the header holds
C3_TierAOncePerPage ==
    \A p \in Pages : Cardinality(CallsOn(p, {"insert"}, {"tierA"})) <= 1

NameBlank == Strip(old_name) = <<>> \/ Strip(new_name) = <<>>

HeaderUntouched(p) ==
    RunsIn(doc[p], HeaderArea(doc[p])) = RunsIn(pdf_bytes[p], HeaderArea(pdf_bytes[p]))

\* C4: a name replacement with a blank old or new name makes no library call and adds
\* nothing to the count; a date replacement that is unset or has a blank new date runs
\* neither tier and leaves every header as it was; the call then still returns the
\* document and the count
C4_BlankInputsAreSkipped ==
    /\ replace_name /\ NameBlank =>
           /\ NumCalls({"redact", "insert", "get_text"}, {"name"}) = 0
           /\ replacements =
                  NumCalls({"redact"}, {"roll"}) + NumCalls({"insert"}, {"tierA", "tierB"})
    /\ ~DateEnabled =>
           /\ NumCalls({"redact", "insert", "get_text"}, {"tierA", "tierB"}) = 0
           /\ \A p \in Pages : HeaderUntouched(p)
           /\ replacements = NumCalls({"redact"}, {"roll", "name"})
    /\ Done => out = doc

C4_Witness ==
    /\ Done
    /\ replace_name /\ NameBlank /\ old_name # new_name
    /\ replace_date /\ new_date = Blank
    /\ \E p \in Pages : FooterHits(pdf_bytes[p], old_name) # <<>>
    /\ \E p \in Pages :
           re_search(get_text(pdf_bytes[p], HeaderArea(pdf_bytes[p]))).found
    /\ replacements > 0

TierAFinds(pg) ==
    LET ws == sort_words(get_words(pg, HeaderArea(pg)))
    IN  \E k \in 1..Len(ws) : LabelledDate(ws, k)

TierBFinds(pg) ==
    LET mm == re_search(get_text(pg, HeaderArea(pg)))
    IN  mm.found /\ search_for(pg, mm.group0, HeaderArea(pg)) # <<>>

NothingFound(pg) ==
    /\ FooterHits(pg, old_roll) = <<>>
    /\ replace_name => FooterHits(pg, old_name) = <<>>
    /\ ~TierAFinds(pg)
    /\ ~TierBFinds(pg)

Untouched(p) ==
    /\ doc[p] = pdf_bytes[p]
    /\ CallsOn(p, {"redact", "insert"}, AllFields) = {}
    /\ Done => out[p] = pdf_bytes[p]

\* C6: a page whose footer holds neither the old roll number nor (name replacement
\* enabled) the old name and whose header gives no date match in either tier is never
\* redacted nor drawn on, keeps its content in the output and adds nothing to the count
C6_UnmatchedPageUnchanged ==
    /\ \A p \in Pages : ~Untouched(p) => ~NothingFound(pdf_bytes[p])
    /\ Done => replacements = Counted

C6_Witness ==
    /\ Done /\ DateEnabled /\ replace_name /\ ~NameBlank
    /\ \E p \in Pages : NothingFound(pdf_bytes[p]) /\ pdf_bytes[p].runs # <<>>
    /\ \E p \in Pages : ~NothingFound(pdf_bytes[p])
    /\ replacements > 0

TierAReplaced(p) == CallsOn(p, {"insert"}, {"tierA"}) # {}

TierBAttempted(p) == CallsOn(p, {"get_text"}, {"tierB"}) # {}

TierBReplaced(p) == CallsOn(p, {"insert"}, {"tierB"}) # {}

\* C7: with the date replacement enabled, the fallback tier is attempted on a page
\* exactly when the token tier replaced nothing there; no page is counted by both
\* tiers; and a page both tiers miss keeps its header and adds nothing to the count
C7_FallbackIffTokenTierMissed ==
    \A p \in Pages :
        /\ ~(TierAReplaced(p) /\ (TierBAttempted(p) \/ TierBReplaced(p)))
        /\ TierBReplaced(p) => TierBAttempted(p)
        /\ DateEnabled /\ DateStepOver(p) =>
               /\ TierBAttempted(p) <=> ~TierAReplaced(p)
               /\ TierBAttempted(p) <=> ~TierAFinds(pdf_bytes[p])
               /\ ~TierAReplaced(p) /\ ~TierBReplaced(p) =>
                      /\ HeaderUntouched(p)
                      /\ CallsOn(p, {"redact", "insert"}, {"tierA", "tierB"}) = {}

C7_Witness ==
    /\ Done /\ DateEnabled /\ Len(pdf_bytes) = 2
    /\ TierAReplaced(1) /\ ~TierBAttempted(1)
    /\ TierBAttempted(2) /\ TierBReplaced(2) /\ ~TierAReplaced(2)

Redactions == NumCalls({"redact"}, AllFields)

Insertions == NumCalls({"insert"}, AllFields)

\* C8: every redaction is followed at once by the insertion of the new text at the
\* anchor of the redacted box, before any other redaction and before the save; in the
\* serialized document redactions, insertions and the count are the same number
C8_RedactThenInsert ==
    /\ \A k \in 1..Len(calls) :
           /\ calls[k].op = "redact" =>
                  IF k = Len(calls)
                  THEN pc \in {"roll_insert", "name_insert", "tierA_insert", "tierB_insert"}
                       /\ inst = calls[k].box
                  ELSE /\ calls[k + 1].op = "insert"
                       /\ calls[k + 1].field = calls[k].field
                       /\ calls[k + 1].page = calls[k].page
                       /\ calls[k + 1].pt = Point(calls[k].box.x0, calls[k].box.y1 - Pt(2))
           /\ calls[k].op = "insert" => k > 1 /\ calls[k - 1].op = "redact"
    /\ out # NoDoc \/ pc = "save" =>
           Redactions = Insertions /\ Insertions = replacements
    /\ out # NoDoc => out = doc

C8_Witness ==
    /\ Done /\ replacements >= 4
    /\ \A f \in AllFields : NumCalls({"insert"}, {f}) > 0

FitReturned == pc = "returned"

FitWidth == text_width(fit_args.text, fit_args.base_fontsize)

\* base_fontsize * target_width / width, for a positive width
FitScaled == <<fit_args.base_fontsize * fit_args.target_width, FitWidth>>

FitMin == <<fit_args.min_fs, 1>>

FitMax == <<fit_args.max_fs, 1>>

FitBase == <<fit_args.base_fontsize, 1>>

\* C9: for a text of positive width and min_fs <= max_fs the size returned lies in
\* [min_fs, max_fs], is min_fs when the scaled size is at or below min_fs and max_fs
\* when it is at or above max_fs; with the defaults of the date (base 10, limits 8
\* and 14) the size lies in [8, 14]
C9_FitClamps ==
    FitReturned =>
        /\ FitWidth > 0 /\ fit_args.min_fs <= fit_args.max_fs =>
               /\ RatLe(FitMin, fit_ret) /\ RatLe(fit_ret, FitMax)
               /\ RatLe(FitScaled, FitMin) => RatEq(fit_ret, FitMin)
               /\ RatLe(FitMax, FitScaled) => RatEq(fit_ret, FitMax)
        /\ (/\ fit_args.base_fontsize = BaseFontSize
            /\ fit_args.min_fs = DefaultMinFs
            /\ fit_args.max_fs = DefaultMaxFs) =>
               RatLe(<<8, 1>>, fit_ret) /\ RatLe(fit_ret, <<14, 1>>)

C9_Witness ==
    /\ FitReturned /\ FitWidth > 0
    /\ fit_args.min_fs < fit_args.max_fs
    /\ RatLe(FitMax, FitScaled) /\ ~RatEq(FitMax, FitScaled)
    /\ RatEq(fit_ret, FitMax)

\* C10 as stated: a target width equal to the width of the text at base_fontsize gives
\* back base_fontsize, whatever base_fontsize is; a width <= 0 gives back base_fontsize
C10_ExactFitReturnsBase ==
    FitReturned =>
        /\ fit_args.target_width = FitWidth => RatEq(fit_ret, FitBase)
        /\ FitWidth <= 0 => fit_ret = FitBase

\* C10, amended: a target width equal to the (positive) width of the text at
\* base_fontsize gives back base_fontsize clamped to [min_fs, max_fs], hence
\* base_fontsize itself when min_fs <= base_fontsize <= max_fs; a width <= 0 gives back
\* base_fontsize, unscaled and unclamped
C10_ExactFitReturnsClampedBase ==
    FitReturned =>
        /\ fit_args.target_width = FitWidth /\ FitWidth > 0 =>
               /\ RatEq(fit_ret, RatMax(FitMin, RatMin(FitMax, FitBase)))
               /\ fit_args.min_fs <= fit_args.base_fontsize
                      /\ fit_args.base_fontsize <= fit_args.max_fs =>
                      RatEq(fit_ret, FitBase)
        /\ FitWidth <= 0 => fit_ret = FitBase

C10_Witness ==
    /\ FitReturned
    /\ fit_args.target_width = FitWidth /\ FitWidth > 0
    /\ fit_args.min_fs < fit_args.base_fontsize
    /\ fit_args.base_fontsize < fit_args.max_fs
    /\ RatEq(fit_ret, FitBase)

====
